---- MODULE Spec2Model ----
(***************************************************************************)
(* Tool-chain orchestration engine of the GitHub automation tool           *)
(* (src/tool_execution_engine.py): the Tool Invoker (execute_tool), the    *)
(* Execution Context, the Chain Executor with its three strategies, the    *)
(* Workflow Engine and the Orchestrator (execute_request, with the keyword *)
(* classifier of src/intent_classification.py).                            *)
(*                                                                         *)
(* One behaviour is one caller working on one fresh ToolExecutionContext:  *)
(* a test harness issuing execute_tool calls, one execute_chain call, one  *)
(* execute_workflow call, or one execute_request call.  The transport      *)
(* (api_client.request) is the                                             *)
(* environment.  Inside a chain it answers as a suggestion graph: the      *)
(* answer of a tool is chosen when the tool is first requested and is the  *)
(* same for the rest of the run.  Elsewhere it is chosen per call.         *)
(*                                                                         *)
(* Two further specifications: several top-level calls in progress on one  *)
(* ToolOrchestrator, interleaved at the awaits of the transport, each on   *)
(* the context it constructed; and a ToolResult (src/tool_contracts.py)    *)
(* written by to_json and read back by from_json.                          *)
(***************************************************************************)
EXTENDS Integers, Sequences, FiniteSets, TLC

\* ------------------------------------------------------------------------
\* Bounds of the model
\* ------------------------------------------------------------------------
\* longest suggestedTools list of the result handed to execute_chain
MaxSuggestions == 3

\* the same, where termination is checked
MaxSuggestionsFair == 2

\* number of execute_tool calls the harness issues on one context
MaxCalls == 4

\* ------------------------------------------------------------------------
\* Data (src/tool_contracts.py, src/intent_classification.py)
\* ------------------------------------------------------------------------
\* Python's None, where a tool name hint is expected
NoHint == "<None>"

\* keys of INTENT_CLASSIFICATIONS: the Tool Registry
INTENT_CLASSIFICATIONS ==
    { "create_repository", "initialize_repository", "clone_repository",
      "create_branch", "list_branches", "merge_branches", "add_file",
      "add_multiple_files", "list_files", "read_file", "commit_changes",
      "push_changes", "stage_all_changes", "create_issue",
      "create_pull_request", "list_repositories", "setup_credentials",
      "generate_gitignore", "check_status" }

\* a lookup that finds an intent for every name
get_intent_by_name_Any(tool_name) == TRUE

\* IntentClassifier.get_intent_by_name(name) is truthy
get_intent_by_name(tool_name) == tool_name \in INTENT_CLASSIFICATIONS

ToolType ==
    { "CREATOR", "ANALYZER", "MODIFIER", "RETRIEVER", "VALIDATOR",
      "EXECUTOR", "REPORTER" }

\* a SuggestedToolReference (reason, parameters, outputLabel play no part
\* in the control flow of the engine)
SuggestedToolReference(type, hint) == [toolType |-> type, toolNameHint |-> hint]

\* the hint taken as present whatever it is
Truthy_Always(hint) == TRUE

\* Python truthiness of an Optional[str]
Truthy(hint) == hint # NoHint /\ hint # ""

\* a Python dict with string keys is a function on its key set
EmptyDict == [k \in {} |-> ""]

\* payloads (Any): None, a dict, a non-empty list whose items are not
\* key/value pairs, a non-zero scalar, a non-empty list of [key, value]
\* pairs (d: the mapping the pairs spell out)
PayloadNone   == [kind |-> "none"]
PayloadList   == [kind |-> "list"]
PayloadScalar == [kind |-> "scalar"]
PayloadDict(d) == [kind |-> "dict", value |-> d]
PayloadPairs(d) == [kind |-> "pairs", value |-> d]

\* Python truthiness of a payload
PayloadTruthy(payload) ==
    \/ payload.kind \in {"list", "scalar", "pairs"}
    \/ payload.kind = "dict" /\ DOMAIN payload.value # {}

\* a ToolResult; metadata is always present
ToolResult(name, rpp, suggestions, payload) ==
    [ toolName |-> name,
      metadata |-> [requiresPostProcessing |-> rpp, suggestedTools |-> suggestions],
      payload  |-> payload ]

\* execute_tool's "return None"
None == [none |-> TRUE]

IsResult(r) == "toolName" \in DOMAIN r

\* ------------------------------------------------------------------------
\* Transport (api_client.request): what one awaited request can produce
\* ------------------------------------------------------------------------
\* the request raised (network failure, timeout)
Raised == [kind |-> "raise"]

\* a response with a status code; valid: response.json() parses and
\* validates as a ToolResult, json: that ToolResult
Response(status, result) ==
    [kind |-> "response", status_code |-> status, valid |-> TRUE, json |-> result]

\* a response whose body ToolResult.model_validate rejects
Unparsable(status) ==
    [kind |-> "response", status_code |-> status, valid |-> FALSE]

\* ------------------------------------------------------------------------
\* ToolExecutionContext
\* ------------------------------------------------------------------------
VARIABLES
    context,      \* [results, errors] of the ToolExecutionContext
    caller,       \* which operation this context is used for
    pc,           \* position of the caller
    chain,        \* arguments and locals of execute_chain
    batch,        \* locals of the strategy handler that is running; first:
                  \* number of calls made before the handler was entered
    server,       \* the suggestion graph: answer of each tool once requested
    workflow,     \* arguments, locals and outcome of execute_workflow
    invocations,  \* tool names execute_tool was entered with, in order
    requests,     \* tool names api_client.request was awaited for, in order
    returns,      \* [tool, response, result] of every finished execute_tool
    summary,      \* last value returned by get_execution_summary
    request,      \* argument, locals and envelope of execute_request
    concurrent,   \* the orchestrator calls in progress side by side, each
                  \* with the context it created
    codec         \* a ToolResult, its to_json text and what from_json
                  \* makes of that text

NewContext == [results |-> <<>>, errors |-> <<>>]

add_result(ctx, result) == [ctx EXCEPT !.results = Append(@, result)]

add_error(ctx, error) == [ctx EXCEPT !.errors = Append(@, error)]

get_last_result(ctx) ==
    IF ctx.results # <<>> THEN ctx.results[Len(ctx.results)] ELSE None

\* a summary whose success flag ignores the error log
get_execution_summary_AlwaysSuccessful(ctx) ==
    [ total_tools_executed |-> Len(ctx.results),
      errors     |-> Len(ctx.errors),
      successful |-> TRUE,
      tool_chain |-> [i \in 1..Len(ctx.results) |-> ctx.results[i].toolName] ]

get_execution_summary(ctx) ==
    [ total_tools_executed |-> Len(ctx.results),
      errors     |-> Len(ctx.errors),
      successful |-> (Len(ctx.errors) = 0),
      tool_chain |-> [i \in 1..Len(ctx.results) |-> ctx.results[i].toolName] ]

NoSummary == [none |-> TRUE]

NoRequest == [none |-> TRUE]

\* ------------------------------------------------------------------------
\* ToolExecutor.execute_tool
\* ------------------------------------------------------------------------
\* the error entry of the else branch (non-200 status)
HttpError(tool_name, status) ==
    [tool |-> tool_name, error |-> <<"HTTP", status>>, details |-> "response.text"]

\* the error entry of the except branch
ExceptionError(tool_name, type) ==
    [tool |-> tool_name, error |-> "str(e)", type |-> type]

\* execute_tool whose non-200 branch raises after recording its error, so
\* that the except branch records a second one
execute_tool_RaiseAfterRecord(tool_name, response, ctx) ==
    IF ~get_intent_by_name(tool_name)
    THEN [ context |-> add_error(ctx, ExceptionError(tool_name, "ValueError")),
           result  |-> None ]
    ELSE IF response.kind = "raise"
    THEN [ context |-> add_error(ctx, ExceptionError(tool_name, "ConnectionError")),
           result  |-> None ]
    ELSE IF response.status_code = 200
    THEN IF response.valid
         THEN [ context |-> add_result(ctx, response.json),
                result  |-> response.json ]
         ELSE [ context |-> add_error(ctx, ExceptionError(tool_name, "ValidationError")),
                result  |-> None ]
    ELSE [ context |-> add_error(
                         add_error(ctx, HttpError(tool_name, response.status_code)),
                         ExceptionError(tool_name, "HTTPError")),
           result  |-> None ]

\* execute_tool taking every 2xx status for a success
execute_tool_Any2xx(tool_name, response, ctx) ==
    IF ~get_intent_by_name(tool_name)
    THEN [ context |-> add_error(ctx, ExceptionError(tool_name, "ValueError")),
           result  |-> None ]
    ELSE IF response.kind = "raise"
    THEN [ context |-> add_error(ctx, ExceptionError(tool_name, "ConnectionError")),
           result  |-> None ]
    ELSE IF response.status_code >= 200 /\ response.status_code < 300
    THEN IF response.valid
         THEN [ context |-> add_result(ctx, response.json),
                result  |-> response.json ]
         ELSE [ context |-> add_error(ctx, ExceptionError(tool_name, "ValidationError")),
                result  |-> None ]
    ELSE [ context |-> add_error(ctx, HttpError(tool_name, response.status_code)),
           result  |-> None ]

\* execute_tool given what the transport produces for this call;
\* the context after the call and the value returned
execute_tool(tool_name, response, ctx) ==
    IF ~get_intent_by_name(tool_name)
    THEN [ context |-> add_error(ctx, ExceptionError(tool_name, "ValueError")),
           result  |-> None ]
    ELSE IF response.kind = "raise"
    THEN [ context |-> add_error(ctx, ExceptionError(tool_name, "ConnectionError")),
           result  |-> None ]
    ELSE IF response.status_code = 200
    THEN IF response.valid
         THEN [ context |-> add_result(ctx, response.json),
                result  |-> response.json ]
         ELSE [ context |-> add_error(ctx, ExceptionError(tool_name, "ValidationError")),
                result  |-> None ]
    ELSE [ context |-> add_error(ctx, HttpError(tool_name, response.status_code)),
           result  |-> None ]

\* execute_tool reaches "await self.api_client.request" for this tool name
awaits_request(tool_name) == get_intent_by_name(tool_name)

\* ------------------------------------------------------------------------
\* Inputs of execute_chain and the transport's answers inside a chain
\* ------------------------------------------------------------------------
\* registered tools that suggestions of the model name
ChainTools == {"list_files", "commit_changes"}

\* suggested by create_repository, absent from INTENT_CLASSIFICATIONS
UnregisteredTool == "add_gitignore"

\* the suggestions an initial result is built from, per strategy: one
\* suggestion for every combination of the fields that strategy's handler
\* reads (the hint alone; read-only type and hint; MODIFIER, VALIDATOR or
\* other type and hint)
SuggestionPool(strategy) ==
    CASE strategy = "SEQUENTIAL" ->
           { SuggestedToolReference("CREATOR", "list_files"),
             SuggestedToolReference("CREATOR", UnregisteredTool),
             SuggestedToolReference("CREATOR", NoHint) }
      [] strategy = "PARALLEL" ->
           { SuggestedToolReference("RETRIEVER", "list_files"),
             SuggestedToolReference("ANALYZER",  "commit_changes"),
             SuggestedToolReference("MODIFIER",  "list_files"),
             SuggestedToolReference("RETRIEVER", NoHint) }
      [] strategy = "CONDITIONAL" ->
           { SuggestedToolReference("MODIFIER",  "list_files"),
             SuggestedToolReference("VALIDATOR", "list_files"),
             SuggestedToolReference("CREATOR",   NoHint) }
      [] OTHER ->
           { SuggestedToolReference("CREATOR", "list_files") }

SeqsUpTo(S, n) == UNION {[1..k -> S] : k \in 0..n}

\* suggestedTools of a result the server returns for a tool: none, or one
\* read-only suggestion naming the tool itself (a cycle)
FollowUps(tool_name) ==
    {<<>>, <<SuggestedToolReference("RETRIEVER", tool_name)>>}

\* what the transport may answer for a tool requested inside a chain
ChainResponses(tool_name) ==
    {Raised, Unparsable(200), Unparsable(404)}
    \cup { Response(status, ToolResult(tool_name, rpp, follow, PayloadDict(EmptyDict))) :
              status \in {200}, rpp \in BOOLEAN, follow \in FollowUps(tool_name) }

Unset == [unset |-> TRUE]

\* the tool_name the endpoints of src/app.py put into their ToolResult
ServerToolName(tool_name) ==
    CASE tool_name = "create_repository" -> "create_github_repository"
      [] tool_name = "create_branch"     -> "create_local_branch"
      [] OTHER                           -> tool_name

\* payloads of the results a workflow step receives
StepPayloads ==
    { PayloadDict(EmptyDict), PayloadDict([file_name |-> "b.txt"]),
      PayloadDict([repo_path |-> "/r"]), PayloadList, PayloadScalar,
      PayloadPairs([file_name |-> "c.txt"]) }

\* what the transport may answer for a tool requested by a workflow step
WorkflowResponses(tool_name) ==
    {Raised, Unparsable(404)}
    \cup { Response(200, ToolResult(tool_name, FALSE, <<>>, payload)) :
              payload \in StepPayloads }
    \cup { Response(200, ToolResult(ServerToolName(tool_name), FALSE, <<>>,
                                    PayloadDict(EmptyDict))) }

\* tools a caller of execute_tool names
HarnessTools == {"create_repository", UnregisteredTool}

\* what the transport may answer for one such call
HarnessResponses(tool_name) ==
    {Raised, Unparsable(200), Unparsable(204), Unparsable(404)}
    \cup { Response(status, ToolResult(name, FALSE, <<>>, PayloadNone)) :
              status \in {200, 201},
              name \in {tool_name, ServerToolName(tool_name)} }

\* the answers the transport can give to tool_name in the current state
Answers(tool_name) ==
    IF ~awaits_request(tool_name) THEN {Raised}
    ELSE IF caller = "execute_workflow" THEN WorkflowResponses(tool_name)
    ELSE IF caller = "execute_tool" THEN HarnessResponses(tool_name)
    ELSE IF server[tool_name] = Unset THEN ChainResponses(tool_name)
    ELSE {server[tool_name]}

Remember(tool_name, response) ==
    IF tool_name \in DOMAIN server
    THEN [server EXCEPT ![tool_name] = response]
    ELSE server

\* ExecutionStrategy
ExecutionStrategy == {"SEQUENTIAL", "PARALLEL", "CONDITIONAL", "INTERACTIVE"}

\* filter_func arguments: None, a predicate rejecting the suggestions that
\* name list_files, a predicate rejecting everything
FilterFuncs == {"None", "not_list_files", "reject_all"}

filter_func(f, t) ==
    CASE f = "not_list_files" -> t.toolNameHint # "list_files"
      [] f = "reject_all"     -> FALSE
      [] OTHER                -> TRUE

\* the suggestions handed on as they are
Filtered_Ignored(f, suggested_tools) == suggested_tools

\* [t for t in suggested_tools if filter_func(t)]
Filtered(f, suggested_tools) ==
    SelectSeq(suggested_tools, LAMBDA t : filter_func(f, t))

\* ToolChainExecutor.max_chain_length
max_chain_length == 10

NoChain == [none |-> TRUE]
NoBatch == [none |-> TRUE]

\* ------------------------------------------------------------------------
\* One execute_tool call made by the running operation
\* ------------------------------------------------------------------------
NoResponse == [none |-> TRUE]

\* the log entry of a finished call: the tool named, the transport's answer
\* if the transport was asked, the value returned
Returned(tool_name, response, result) ==
    [ tool     |-> tool_name,
      response |-> IF awaits_request(tool_name) THEN response ELSE NoResponse,
      result   |-> result ]

\* the call is entered, awaits the transport if the tool is registered,
\* and returns; response is the transport's answer
Invoke(tool_name, response) ==
    LET out == execute_tool(tool_name, response, context) IN
    /\ context' = out.context
    /\ invocations' = Append(invocations, tool_name)
    /\ requests' = IF awaits_request(tool_name)
                   THEN Append(requests, tool_name) ELSE requests
    /\ returns' = Append(returns, Returned(tool_name, response, out.result))
    /\ server' = IF awaits_request(tool_name)
                 THEN Remember(tool_name, response) ELSE server

\* ------------------------------------------------------------------------
\* ToolChainExecutor.execute_chain
\* ------------------------------------------------------------------------
\* lines 132-136: the call, up to the first test of the while condition
ExecuteChain(initial_result, strategy, f) ==
    /\ \/ pc = "idle" /\ caller = "execute_chain"
       \/ pc = "chain" /\ caller = "execute_request"
    /\ context' = add_result(context, initial_result)
    /\ chain' = [ strategy       |-> strategy,
                  filter_func    |-> f,
                  results        |-> <<initial_result>>,
                  current_result |-> initial_result,
                  chain_length   |-> 0,
                  dispatched     |-> 0 ]
    /\ pc' = "while"
    /\ UNCHANGED <<concurrent, codec, caller, batch, server, workflow, invocations, requests,
                   returns, summary, request>>

\* the tasks built without the test of the tool type
ParallelTasks_AnyType(suggested_tools) ==
    LET eligible == SelectSeq(suggested_tools,
                      LAMBDA t : t.toolNameHint # NoHint /\ t.toolNameHint # "")
    IN [k \in 1..Len(eligible) |->
          [tool |-> eligible[k].toolNameHint, done |-> FALSE, result |-> None]]

\* the tasks _execute_parallel builds (lines 196-204)
ParallelTasks(suggested_tools) ==
    LET eligible == SelectSeq(suggested_tools,
                      LAMBDA t : t.toolType \in {"RETRIEVER", "ANALYZER"}
                                 /\ Truthy(t.toolNameHint))
    IN [k \in 1..Len(eligible) |->
          [tool |-> eligible[k].toolNameHint, done |-> FALSE, result |-> None]]

ToolsOf(tasks) == [k \in 1..Len(tasks) |-> tasks[k].tool]

\* the loop condition with <= for <
WhileCondition_OffByOne == chain.chain_length <= max_chain_length

\* the condition of the while loop (a ToolResult is always truthy)
WhileCondition == chain.chain_length < max_chain_length

\* chain with one more handler dispatch counted; the count stops at
\* max_chain_length + 1, which stands for any larger number
Dispatched ==
    [chain EXCEPT !.dispatched = IF @ <= max_chain_length THEN @ + 1 ELSE @]

\* lines 138-159: test of the loop condition, reading and filtering of the
\* suggestions, dispatch to the strategy handler
ChainWhile ==
    /\ pc = "while"
    /\ LET suggested == chain.current_result.metadata.suggestedTools
           suggested_tools == IF chain.filter_func # "None"
                              THEN Filtered(chain.filter_func, suggested)
                              ELSE suggested
           tasks == ParallelTasks(suggested_tools)
           named == ToolsOf(tasks)
       IN
       IF ~WhileCondition \/ suggested = <<>> \/ suggested_tools = <<>>
       THEN /\ pc' = "returned"
            /\ UNCHANGED <<chain, batch, invocations, requests>>
       ELSE IF chain.strategy = "SEQUENTIAL"
       THEN /\ pc' = "sequential"
            /\ chain' = Dispatched
            /\ batch' = [suggested_tools |-> suggested_tools, i |-> 1,
                         results |-> <<>>, tasks |-> <<>>,
                         first |-> Len(invocations)]
            /\ UNCHANGED <<invocations, requests>>
       ELSE IF chain.strategy = "PARALLEL"
       THEN /\ pc' = "parallel"
            /\ chain' = Dispatched
            /\ batch' = [suggested_tools |-> suggested_tools, i |-> 1,
                         results |-> <<>>, tasks |-> tasks,
                         first |-> Len(invocations)]
            /\ invocations' = invocations \o named
            /\ requests' = requests \o SelectSeq(named, awaits_request)
       ELSE IF chain.strategy = "CONDITIONAL"
       THEN /\ pc' = "conditional"
            /\ chain' = Dispatched
            /\ batch' = [suggested_tools |-> suggested_tools, i |-> 1,
                         results |-> <<>>, tasks |-> <<>>,
                         first |-> Len(invocations)]
            /\ UNCHANGED <<invocations, requests>>
       ELSE \* next_results = [], and the loop breaks
            /\ pc' = "returned"
            /\ UNCHANGED <<chain, batch, invocations, requests>>
    /\ UNCHANGED <<concurrent, codec, context, caller, server, workflow, returns, summary, request>>

\* the for loop without its break
AfterSuggestion_NoBreak(stop) ==
    IF batch.i = Len(batch.suggested_tools) THEN "after" ELSE pc

\* where a for loop over the batch goes after suggestion i
AfterSuggestion(stop) ==
    IF stop \/ batch.i = Len(batch.suggested_tools) THEN "after" ELSE pc

\* _execute_sequential leaving its for loop when a call returns None
SequentialStep_StopOnFailure ==
    /\ pc = "sequential"
    /\ batch.i <= Len(batch.suggested_tools)
    /\ LET suggestion == batch.suggested_tools[batch.i]
           tool_name == suggestion.toolNameHint
       IN
       IF ~Truthy(tool_name)
       THEN /\ batch' = [batch EXCEPT !.i = @ + 1]
            /\ pc' = AfterSuggestion(FALSE)
            /\ UNCHANGED <<context, invocations, requests, returns, server>>
       ELSE \E response \in Answers(tool_name) :
            LET result == execute_tool(tool_name, response, context).result IN
            /\ Invoke(tool_name, response)
            /\ IF IsResult(result)
               THEN /\ batch' = [batch EXCEPT !.i = @ + 1,
                                              !.results = Append(@, result)]
                    /\ pc' = AfterSuggestion(~result.metadata.requiresPostProcessing)
               ELSE /\ batch' = [batch EXCEPT !.i = @ + 1]
                    /\ pc' = AfterSuggestion(TRUE)
    /\ UNCHANGED <<concurrent, codec, caller, chain, workflow, summary, request>>

\* _execute_sequential: one iteration of the for loop (lines 175-187), and
\* the return when the loop ends or breaks
SequentialStep ==
    /\ pc = "sequential"
    /\ batch.i <= Len(batch.suggested_tools)
    /\ LET suggestion == batch.suggested_tools[batch.i]
           tool_name == suggestion.toolNameHint
       IN
       IF ~Truthy(tool_name)
       THEN /\ batch' = [batch EXCEPT !.i = @ + 1]
            /\ pc' = AfterSuggestion(FALSE)
            /\ UNCHANGED <<context, invocations, requests, returns, server>>
       ELSE \E response \in Answers(tool_name) :
            LET result == execute_tool(tool_name, response, context).result IN
            /\ Invoke(tool_name, response)
            /\ IF IsResult(result)
               THEN /\ batch' = [batch EXCEPT !.i = @ + 1,
                                              !.results = Append(@, result)]
                    /\ pc' = AfterSuggestion(~result.metadata.requiresPostProcessing)
               ELSE /\ batch' = [batch EXCEPT !.i = @ + 1]
                    /\ pc' = AfterSuggestion(FALSE)
    /\ UNCHANGED <<concurrent, codec, caller, chain, workflow, summary, request>>

\* a task of the gather may finish: tasks start in list order, and a task
\* for an unregistered tool finishes without suspending, so it finishes
\* before any later task
MayFinish(k) ==
    /\ ~batch.tasks[k].done
    /\ \A j \in 1..(k - 1) :
          batch.tasks[j].done \/ awaits_request(batch.tasks[j].tool)

\* _execute_parallel: one of the gathered execute_tool calls returns
ParallelComplete(k) ==
    /\ pc = "parallel"
    /\ k \in 1..Len(batch.tasks)
    /\ MayFinish(k)
    /\ LET tool_name == batch.tasks[k].tool IN
       \E response \in Answers(tool_name) :
       LET out == execute_tool(tool_name, response, context) IN
       /\ context' = out.context
       /\ returns' = Append(returns, Returned(tool_name, response, out.result))
       /\ server' = IF awaits_request(tool_name)
                    THEN Remember(tool_name, response) ELSE server
       /\ batch' = [batch EXCEPT !.tasks[k] = [@ EXCEPT !.done = TRUE,
                                                         !.result = out.result]]
    /\ UNCHANGED <<concurrent, codec, caller, pc, chain, workflow, invocations, requests, summary, request>>

\* results of the gather, in task order, without the None entries
Gathered(tasks) ==
    LET done == SelectSeq(tasks, LAMBDA t : IsResult(t.result))
    IN [k \in 1..Len(done) |-> done[k].result]

\* a gather that returns as soon as one of its calls has returned
ParallelGather_FirstCompleted ==
    /\ pc = "parallel"
    /\ \/ batch.tasks = <<>>
       \/ \E k \in 1..Len(batch.tasks) : batch.tasks[k].done
    /\ batch' = [batch EXCEPT !.results = Gathered(batch.tasks)]
    /\ pc' = "after"
    /\ UNCHANGED <<concurrent, codec, context, caller, chain, server, workflow, invocations,
                   requests, returns, summary, request>>

\* _execute_parallel: the gather returns (lines 206-210)
ParallelGather ==
    /\ pc = "parallel"
    /\ \A k \in 1..Len(batch.tasks) : batch.tasks[k].done
    /\ batch' = [batch EXCEPT !.results = Gathered(batch.tasks)]
    /\ pc' = "after"
    /\ UNCHANGED <<concurrent, codec, context, caller, chain, server, workflow, invocations,
                   requests, returns, summary, request>>

\* a condition that lets every suggestion run
evaluate_condition_Always(suggestion, ctx) == TRUE

\* ToolChainExecutor._evaluate_condition
evaluate_condition(suggestion, ctx) ==
    LET last_result == get_last_result(ctx) IN
    IF ~IsResult(last_result) THEN TRUE
    ELSE IF suggestion.toolType = "MODIFIER"
            /\ ~last_result.metadata.requiresPostProcessing THEN FALSE
    ELSE IF suggestion.toolType = "VALIDATOR" THEN TRUE
    ELSE TRUE

\* _execute_conditional: one iteration of the for loop (lines 217-228), and
\* the return when the loop ends
ConditionalStep ==
    /\ pc = "conditional"
    /\ batch.i <= Len(batch.suggested_tools)
    /\ LET suggestion == batch.suggested_tools[batch.i]
           should_execute == evaluate_condition(suggestion, context)
       IN
       IF ~(should_execute /\ Truthy(suggestion.toolNameHint))
       THEN /\ batch' = [batch EXCEPT !.i = @ + 1]
            /\ pc' = AfterSuggestion(FALSE)
            /\ UNCHANGED <<context, invocations, requests, returns, server>>
       ELSE \E response \in Answers(suggestion.toolNameHint) :
            LET result == execute_tool(suggestion.toolNameHint, response,
                                       context).result IN
            /\ Invoke(suggestion.toolNameHint, response)
            /\ batch' = [batch EXCEPT !.i = @ + 1,
                                      !.results = IF IsResult(result)
                                                  THEN Append(@, result) ELSE @]
            /\ pc' = AfterSuggestion(FALSE)
    /\ UNCHANGED <<concurrent, codec, caller, chain, workflow, summary, request>>

\* lines 161-166 with "continue" for "break" on an empty batch
ChainAfter_Continue ==
    /\ pc = "after"
    /\ LET next_results == batch.results IN
       IF next_results = <<>>
       THEN /\ pc' = "while"
            /\ UNCHANGED chain
       ELSE /\ pc' = "while"
            /\ chain' = [chain EXCEPT
                           !.results = @ \o next_results,
                           !.current_result = next_results[Len(next_results)],
                           !.chain_length = @ + 1]
    /\ UNCHANGED <<concurrent, codec, context, caller, batch, server, workflow, invocations,
                   requests, returns, summary, request>>

\* lines 161-166 continuing from the result appended to the context last
ChainAfter_LastAppended ==
    /\ pc = "after"
    /\ LET next_results == batch.results IN
       IF next_results = <<>>
       THEN /\ pc' = "returned"
            /\ UNCHANGED chain
       ELSE /\ pc' = "while"
            /\ chain' = [chain EXCEPT
                           !.results = @ \o next_results,
                           !.current_result = get_last_result(context),
                           !.chain_length = @ + 1]
    /\ UNCHANGED <<concurrent, codec, context, caller, batch, server, workflow, invocations,
                   requests, returns, summary, request>>

\* lines 161-166 going round the loop again after an empty batch
ChainAfter_Retry ==
    /\ pc = "after"
    /\ LET next_results == batch.results IN
       IF next_results = <<>>
       THEN /\ pc' = "while"
            /\ chain' = [chain EXCEPT !.chain_length = @ + 1]
       ELSE /\ pc' = "while"
            /\ chain' = [chain EXCEPT
                           !.results = @ \o next_results,
                           !.current_result = next_results[Len(next_results)],
                           !.chain_length = @ + 1]
    /\ UNCHANGED <<concurrent, codec, context, caller, batch, server, workflow, invocations,
                   requests, returns, summary, request>>

\* lines 161-166: the handler has returned next_results
ChainAfter ==
    /\ pc = "after"
    /\ LET next_results == batch.results IN
       IF next_results = <<>>
       THEN /\ pc' = "returned"
            /\ UNCHANGED chain
       ELSE /\ pc' = "while"
            /\ chain' = [chain EXCEPT
                           !.results = @ \o next_results,
                           !.current_result = next_results[Len(next_results)],
                           !.chain_length = @ + 1]
    /\ UNCHANGED <<concurrent, codec, context, caller, batch, server, workflow, invocations,
                   requests, returns, summary, request>>

\* ------------------------------------------------------------------------
\* WorkflowEngine
\* ------------------------------------------------------------------------
\* a step; step.get("required", True), step.get("params", {})
Step(tool, required) == [tool |-> tool, required |-> required, params |-> EmptyDict]

\* WorkflowEngine._define_workflows
workflows ==
    [ create_and_setup_repo |->
        << Step("create_repository", TRUE),
           Step("initialize_repository", TRUE),
           Step("generate_gitignore", FALSE),
           [tool |-> "add_file", required |-> FALSE,
            params |-> [file_name |-> "README.md"]],
           Step("commit_changes", TRUE),
           Step("push_changes", TRUE) >>,
      feature_development |->
        << Step("create_branch", TRUE),
           Step("add_multiple_files", TRUE),
           Step("commit_changes", TRUE),
           Step("push_changes", TRUE),
           Step("create_pull_request", TRUE) >>,
      code_review |->
        << Step("list_pull_requests", TRUE),
           Step("review_changes", TRUE),
           Step("add_comments", FALSE),
           Step("approve_pr", TRUE),
           Step("merge_branches", TRUE) >> ]

\* dict.update(payload) accepts a mapping or an iterable of key/value
\* pairs, and raises for anything else
Updates(payload) == payload.kind \in {"dict", "pairs"}

\* {**a, **b} and a.update(b): b wins on key collision
Merge(a, b) ==
    [k \in DOMAIN a \cup DOMAIN b |-> IF k \in DOMAIN b THEN b[k] ELSE a[k]]

\* workflow names a caller passes: the registered ones and another one
WorkflowNames == DOMAIN workflows \cup {"release"}

\* initial_params a caller passes
InitialParams == {EmptyDict, [file_name |-> "a.txt"]}

NoReport == [none |-> TRUE]

\* lines 293-298: the call, up to the first step
ExecuteWorkflow(workflow_name, initial_params) ==
    /\ pc = "idle" /\ caller = "execute_workflow"
    /\ IF workflow_name \notin DOMAIN workflows
       THEN /\ pc' = "raised"
            /\ workflow' = [workflow_name |-> workflow_name,
                            exception |-> "ValueError"]
       ELSE /\ pc' = "steps"
            /\ workflow' = [ workflow_name |-> workflow_name,
                             initial_params |-> initial_params,
                             i       |-> 1,
                             results |-> <<>>,
                             params  |-> initial_params,
                             passed  |-> <<>>,
                             report  |-> NoReport ]
    /\ UNCHANGED <<concurrent, codec, context, caller, chain, batch, server, invocations,
                   requests, returns, summary, request>>

ToolNames(results) == [k \in 1..Len(results) |-> results[k].toolName]

\* the report of a failed required step (lines 317-323)
FailedReport(workflow_name, tool_name, results, ctx) ==
    [ workflow        |-> workflow_name,
      status          |-> "failed",
      failed_step     |-> tool_name,
      completed_steps |-> ToolNames(results),
      errors          |-> ctx.errors ]

\* the report after the last step (lines 325-331)
CompletedReport(workflow_name, results, ctx) ==
    [ workflow       |-> workflow_name,
      status         |-> "completed",
      steps_executed |-> Len(results),
      results        |-> results,
      summary        |-> get_execution_summary(ctx) ]

\* one iteration of the for loop (lines 300-323), and the return after the
\* last one (lines 325-331)
WorkflowStep ==
    /\ pc = "steps"
    /\ LET steps == workflows[workflow.workflow_name]
           step == steps[workflow.i]
           tool_name == step.tool
           required == step.required
           step_params == Merge(workflow.params, step.params)
       IN
       \E response \in Answers(tool_name) :
       LET out == execute_tool(tool_name, response, context)
           result == out.result
           results == IF IsResult(result)
                      THEN Append(workflow.results, result)
                      ELSE workflow.results
           called == [workflow EXCEPT !.passed = Append(@, step_params),
                                      !.results = results]
       IN
       /\ Invoke(tool_name, response)
       /\ IF IsResult(result) /\ PayloadTruthy(result.payload)
             /\ ~Updates(result.payload)
          THEN \* params.update(result.payload) raises
               /\ pc' = "raised"
               /\ workflow' = [ workflow_name |-> workflow.workflow_name,
                                exception |-> "TypeError" ]
          ELSE IF ~IsResult(result) /\ required
          THEN /\ pc' = "returned"
               /\ workflow' = [called EXCEPT !.report =
                                 FailedReport(workflow.workflow_name, tool_name,
                                              results, out.context)]
          ELSE LET params == IF IsResult(result) /\ PayloadTruthy(result.payload)
                             THEN Merge(workflow.params, result.payload.value)
                             ELSE workflow.params
               IN
               IF workflow.i = Len(steps)
               THEN /\ pc' = "returned"
                    /\ workflow' = [called EXCEPT !.params = params, !.report =
                                      CompletedReport(workflow.workflow_name,
                                                      results, out.context)]
               ELSE /\ pc' = pc
                    /\ workflow' = [called EXCEPT !.params = params,
                                                  !.i = @ + 1]
    /\ UNCHANGED <<concurrent, codec, caller, chain, batch, summary, request>>

\* ------------------------------------------------------------------------
\* IntentClassifier.classify_intent
\* ------------------------------------------------------------------------
\* a string is the sequence of its characters
UpperToLower ==
    [ A |-> "a", B |-> "b", C |-> "c", D |-> "d", E |-> "e", F |-> "f",
      G |-> "g", H |-> "h", I |-> "i", J |-> "j", K |-> "k", L |-> "l",
      M |-> "m", N |-> "n", O |-> "o", P |-> "p", Q |-> "q", R |-> "r",
      S |-> "s", T |-> "t", U |-> "u", V |-> "v", W |-> "w", X |-> "x",
      Y |-> "y", Z |-> "z" ]

\* str.lower()
Lower(str) ==
    [k \in 1..Len(str) |->
        IF str[k] \in DOMAIN UpperToLower THEN UpperToLower[str[k]] ELSE str[k]]

\* "keyword in str": keyword occurs in str as a substring
Contains(str, keyword) ==
    \E k \in 0..(Len(str) - Len(keyword)) :
        SubSeq(str, k + 1, k + Len(keyword)) = keyword

\* keyword_intent_map in insertion order; keywords: what "for keyword in
\* keywords" yields, the elements of a tuple key and the characters of a
\* key that is a parenthesised string
keyword_intent_map ==
    <<
      [ keywords |-> << <<"c","r","e","a","t","e">>, <<"r","e","p","o","s","i","t","o","r","y">>, <<"r","e","p","o">> >>,
        intent_name |-> "create_repository" ],
      [ keywords |-> << <<"c","r","e","a","t","e">>, <<"g","i","t","h","u","b">>, <<"r","e","p","o">> >>,
        intent_name |-> "create_repository" ],
      [ keywords |-> << <<"i","n","i","t","i","a","l","i","z","e">>, <<"g","i","t">> >>,
        intent_name |-> "initialize_repository" ],
      [ keywords |-> << <<"i","n","i","t">>, <<"r","e","p","o">> >>,
        intent_name |-> "initialize_repository" ],
      [ keywords |-> << <<"c","l","o","n","e">>, <<"r","e","p","o","s","i","t","o","r","y">> >>,
        intent_name |-> "clone_repository" ],
      [ keywords |-> << <<"c","l","o","n","e">>, <<"g","i","t","h","u","b">> >>,
        intent_name |-> "clone_repository" ],
      [ keywords |-> << <<"c","r","e","a","t","e">>, <<"b","r","a","n","c","h">> >>,
        intent_name |-> "create_branch" ],
      [ keywords |-> << <<"n","e","w">>, <<"b","r","a","n","c","h">> >>,
        intent_name |-> "create_branch" ],
      [ keywords |-> << <<"l","i","s","t">>, <<"b","r","a","n","c","h">> >>,
        intent_name |-> "list_branches" ],
      [ keywords |-> << <<"s","h","o","w">>, <<"b","r","a","n","c","h">> >>,
        intent_name |-> "list_branches" ],
      [ keywords |-> << <<"m","e","r","g","e">>, <<"b","r","a","n","c","h">> >>,
        intent_name |-> "merge_branches" ],
      [ keywords |-> << <<"m","e","r","g","e">>, <<"i","n","t","o">> >>,
        intent_name |-> "merge_branches" ],
      [ keywords |-> << <<"a","d","d">>, <<"f","i","l","e">> >>,
        intent_name |-> "add_file" ],
      [ keywords |-> << <<"c","r","e","a","t","e">>, <<"f","i","l","e">> >>,
        intent_name |-> "add_file" ],
      [ keywords |-> << <<"a","d","d">>, <<"m","u","l","t","i","p","l","e">>, <<"f","i","l","e","s">> >>,
        intent_name |-> "add_multiple_files" ],
      [ keywords |-> << <<"a","d","d">>, <<"f","i","l","e","s">> >>,
        intent_name |-> "add_multiple_files" ],
      [ keywords |-> << <<"l","i","s","t">>, <<"f","i","l","e","s">> >>,
        intent_name |-> "list_files" ],
      [ keywords |-> << <<"s","h","o","w">>, <<"f","i","l","e","s">> >>,
        intent_name |-> "list_files" ],
      [ keywords |-> << <<"r","e","a","d">>, <<"f","i","l","e">> >>,
        intent_name |-> "read_file" ],
      [ keywords |-> << <<"s","h","o","w">>, <<"c","o","n","t","e","n","t">> >>,
        intent_name |-> "read_file" ],
      [ keywords |-> << <<"g">>, <<"i">>, <<"t">>, <<"i">>, <<"g">>, <<"n">>, <<"o">>, <<"r">>, <<"e">> >>,
        intent_name |-> "generate_gitignore" ],
      [ keywords |-> << <<"c","o","m","m","i","t">>, <<"c","h","a","n","g","e">> >>,
        intent_name |-> "commit_changes" ],
      [ keywords |-> << <<"c","o","m","m","i","t">>, <<"m","e","s","s","a","g","e">> >>,
        intent_name |-> "commit_changes" ],
      [ keywords |-> << <<"p","u","s","h">>, <<"c","h","a","n","g","e">> >>,
        intent_name |-> "push_changes" ],
      [ keywords |-> << <<"p","u","s","h">>, <<"g","i","t","h","u","b">> >>,
        intent_name |-> "push_changes" ],
      [ keywords |-> << <<"s","t","a","g","e">>, <<"a","l","l">> >>,
        intent_name |-> "stage_all_changes" ],
      [ keywords |-> << <<"a","d","d">>, <<"a","l","l">> >>,
        intent_name |-> "stage_all_changes" ],
      [ keywords |-> << <<"c","r","e","a","t","e">>, <<"i","s","s","u","e">> >>,
        intent_name |-> "create_issue" ],
      [ keywords |-> << <<"o","p","e","n">>, <<"i","s","s","u","e">> >>,
        intent_name |-> "create_issue" ],
      [ keywords |-> << <<"c","r","e","a","t","e">>, <<"p","u","l","l">>, <<"r","e","q","u","e","s","t">> >>,
        intent_name |-> "create_pull_request" ],
      [ keywords |-> << <<"c","r","e","a","t","e">>, <<"p","r">> >>,
        intent_name |-> "create_pull_request" ],
      [ keywords |-> << <<"l","i","s","t">>, <<"r","e","p","o">> >>,
        intent_name |-> "list_repositories" ],
      [ keywords |-> << <<"s","h","o","w">>, <<"r","e","p","o">> >>,
        intent_name |-> "list_repositories" ],
      [ keywords |-> << <<"s","e","t","u","p">>, <<"c","r","e","d","e","n","t","i","a","l">> >>,
        intent_name |-> "setup_credentials" ],
      [ keywords |-> << <<"c","o","n","f","i","g","u","r","e">>, <<"g","i","t","h","u","b">> >>,
        intent_name |-> "setup_credentials" ],
      [ keywords |-> << <<"s","e","t">>, <<"c","r","e","d","e","n","t","i","a","l">> >>,
        intent_name |-> "setup_credentials" ],
      [ keywords |-> << <<"s">>, <<"t">>, <<"a">>, <<"t">>, <<"u">>, <<"s">> >>,
        intent_name |-> "check_status" ],
      [ keywords |-> << <<"g","i","t">>, <<"s","t","a","t","u","s">> >>,
        intent_name |-> "check_status" ]
    >>

\* the value of classify_intent when no rule matches
NoIntent == "<None>"

\* classify_intent: the intent of the first rule all of whose keywords
\* occur in the lower-cased query, looked up in the registry
classify_intent(user_query) ==
    LET query_lower == Lower(user_query)
        matching == { k \in 1..Len(keyword_intent_map) :
                        \A j \in 1..Len(keyword_intent_map[k].keywords) :
                            Contains(query_lower, keyword_intent_map[k].keywords[j]) }
        first == CHOOSE k \in matching : \A j \in matching : k <= j
    IN IF matching = {} THEN NoIntent
       ELSE IF get_intent_by_name(keyword_intent_map[first].intent_name)
       THEN keyword_intent_map[first].intent_name
       ELSE NoIntent

\* ------------------------------------------------------------------------
\* ToolOrchestrator.execute_request
\* ------------------------------------------------------------------------
\* user requests: "List files", "create repository", "hello",
\* "push changes to github origin"
UserRequests ==
    { <<"L","i","s","t"," ","f","i","l","e","s">>,
      <<"c","r","e","a","t","e"," ","r","e","p","o","s","i","t","o","r","y">>,
      <<"h","e","l","l","o">>,
      <<"p","u","s","h"," ","c","h","a","n","g","e","s"," ","t","o"," ",
        "g","i","t","h","u","b"," ","o","r","i","g","i","n">> }

\* what the transport may answer to the initial tool of a request
RequestResponses(tool_name) ==
    {Raised, Unparsable(404)}
    \cup { Response(200, ToolResult(ServerToolName(tool_name), rpp, suggestions,
                                    PayloadDict(EmptyDict))) :
              rpp \in BOOLEAN,
              suggestions \in SeqsUpTo(SuggestionPool("SEQUENTIAL"), MaxSuggestions) }

\* the envelope when the classifier finds no intent (lines 354-358)
NoMatchEnvelope ==
    [ status      |-> "failed",
      error       |-> "Could not understand request",
      suggestions |-> INTENT_CLASSIFICATIONS ]

\* the envelope when the initial call returned None (lines 369-373)
InitialFailedEnvelope(ctx) ==
    [ status  |-> "failed",
      error   |-> "Initial tool execution failed",
      context |-> get_execution_summary(ctx) ]

\* the envelope reporting "failed" when the context holds an error
CompletedEnvelope_FailOnErrors(initial_result, ctx) ==
    [ status            |-> IF ctx.errors = <<>> THEN "completed" ELSE "failed",
      initial_tool      |-> initial_result.toolName,
      chain_executed    |-> Len(ctx.results) > 1,
      total_tools       |-> Len(ctx.results),
      execution_summary |-> get_execution_summary(ctx),
      final_result      |-> get_last_result(ctx) ]

\* the envelope of a request whose initial call succeeded (lines 381-389)
CompletedEnvelope(initial_result, ctx) ==
    [ status            |-> "completed",
      initial_tool      |-> initial_result.toolName,
      chain_executed    |-> Len(ctx.results) > 1,
      total_tools       |-> Len(ctx.results),
      execution_summary |-> get_execution_summary(ctx),
      final_result      |-> get_last_result(ctx) ]

\* the chain started whenever the initial result suggests a tool
ChainNeeded_OnSuggestions(initial_result) ==
    initial_result.metadata.suggestedTools # <<>>

\* line 376: the test that hands the initial result to execute_chain
ChainNeeded(initial_result) == initial_result.metadata.requiresPostProcessing

NoEnvelope == [none |-> TRUE]

\* lines 345-376: classification, the initial call and what follows from
\* its outcome, up to the call of execute_chain
ExecuteRequest(user_request) ==
    /\ pc = "idle" /\ caller = "execute_request"
    /\ LET intent == classify_intent(user_request) IN
       IF intent = NoIntent
       THEN /\ pc' = "done"
            /\ request' = [ user_request   |-> user_request,
                            initial_result |-> None,
                            envelope       |-> NoMatchEnvelope ]
            /\ UNCHANGED <<context, invocations, requests, returns, server>>
       ELSE \E response \in RequestResponses(intent) :
            LET out == execute_tool(intent, response, context)
                initial_result == out.result
            IN
            /\ Invoke(intent, response)
            /\ IF ~IsResult(initial_result)
               THEN /\ pc' = "done"
                    /\ request' = [ user_request   |-> user_request,
                                    initial_result |-> None,
                                    envelope |-> InitialFailedEnvelope(out.context) ]
               ELSE IF ChainNeeded(initial_result)
               THEN /\ pc' = "chain"
                    /\ request' = [ user_request   |-> user_request,
                                    initial_result |-> initial_result,
                                    envelope       |-> NoEnvelope ]
               ELSE /\ pc' = "done"
                    /\ request' = [ user_request   |-> user_request,
                                    initial_result |-> initial_result,
                                    envelope |-> CompletedEnvelope(initial_result,
                                                                   out.context) ]
    /\ UNCHANGED <<concurrent, codec, caller, chain, batch, workflow, summary>>

\* lines 381-389: execute_chain has returned
RequestReturn ==
    /\ pc = "returned" /\ caller = "execute_request"
    /\ pc' = "done"
    /\ request' = [request EXCEPT
                     !.envelope = CompletedEnvelope(request.initial_result, context)]
    /\ UNCHANGED <<concurrent, codec, context, caller, chain, batch, server, workflow,
                   invocations, requests, returns, summary>>

\* ------------------------------------------------------------------------
\* A caller issuing execute_tool calls and reading the summary
\* ------------------------------------------------------------------------
\* one execute_tool call on the context
ExecuteTool(tool_name) ==
    /\ pc = "idle" /\ caller = "execute_tool"
    /\ Len(invocations) < MaxCalls
    /\ \E response \in Answers(tool_name) : Invoke(tool_name, response)
    /\ UNCHANGED <<concurrent, codec, caller, pc, chain, batch, workflow, summary, request>>

\* one get_execution_summary call on the context
GetExecutionSummary ==
    /\ pc = "idle" /\ caller = "execute_tool"
    /\ summary' = get_execution_summary(context)
    /\ UNCHANGED <<concurrent, codec, context, caller, pc, chain, batch, server, workflow,
                   invocations, requests, returns, request>>

\* ------------------------------------------------------------------------
\* ToolOrchestrator: top-level calls in progress on one orchestrator
\* ------------------------------------------------------------------------
\* number of top-level calls in progress at once
MaxRequests == 2

\* execute_tool calls one top-level call makes
MaxCallsPerRequest == 2

Callers == 1..MaxRequests

TopLevel == {"execute_request", "execute_workflow"}

NoConcurrent == [none |-> TRUE]

\* one context object held by every call of the orchestrator
ContextOf_Shared(r) == 1

\* the object the local variable "context" of call r is bound to: the
\* ToolExecutionContext that call constructed
ContextOf(r) == r

\* tools the top-level calls in progress pass to execute_tool
ConcurrentTools == {"create_repository"}

\* what the transport may answer to a call made by one of several
\* top-level calls: a failure or a result
ConcurrentResponses(tool_name) ==
    { Unparsable(404),
      Response(200, ToolResult(tool_name, FALSE, <<>>, PayloadNone)) }

\* no top-level call entered yet
Quiet ==
    [ contexts |-> [r \in Callers |-> NewContext],
      op       |-> [r \in Callers |-> "none"],
      at       |-> [r \in Callers |-> "idle"],
      awaited  |-> [r \in Callers |-> NoHint],
      made     |-> [r \in Callers |-> <<>>],
      summary  |-> [r \in Callers |-> NoSummary] ]

\* the variables of a single top-level call followed on its own
alone == <<context, caller, pc, chain, batch, server, workflow, invocations,
           requests, returns, summary, request>>

\* execute_request or execute_workflow is called: it constructs its
\* ToolExecutionContext
OrchestratorEnter(r, op) ==
    /\ concurrent.at[r] = "idle"
    /\ concurrent' = [concurrent EXCEPT !.contexts[ContextOf(r)] = NewContext,
                                        !.op[r] = op,
                                        !.at[r] = "running"]
    /\ UNCHANGED <<alone, codec>>

\* call r enters execute_tool with its context; an unregistered tool is
\* refused at once, a registered one suspends r at the transport
OrchestratorCall(r, tool_name) ==
    /\ concurrent.at[r] = "running"
    /\ Len(concurrent.made[r]) < MaxCallsPerRequest
    /\ IF awaits_request(tool_name)
       THEN concurrent' = [concurrent EXCEPT !.at[r] = "awaiting",
                                             !.awaited[r] = tool_name]
       ELSE LET out == execute_tool(tool_name, Raised,
                                    concurrent.contexts[ContextOf(r)]) IN
            concurrent' =
              [concurrent EXCEPT
                 !.contexts[ContextOf(r)] = out.context,
                 !.made[r] = Append(@, Returned(tool_name, Raised, out.result))]
    /\ UNCHANGED <<alone, codec>>

\* the transport answers call r, whose execute_tool runs to its end
OrchestratorResume(r, response) ==
    /\ concurrent.at[r] = "awaiting"
    /\ LET tool_name == concurrent.awaited[r]
           out == execute_tool(tool_name, response,
                               concurrent.contexts[ContextOf(r)]) IN
       concurrent' =
         [concurrent EXCEPT
            !.contexts[ContextOf(r)] = out.context,
            !.at[r] = "running",
            !.awaited[r] = NoHint,
            !.made[r] = Append(@, Returned(tool_name, response, out.result))]
    /\ UNCHANGED <<alone, codec>>

\* call r returns its envelope or report, which carries
\* context.get_execution_summary()
OrchestratorReturn(r) ==
    /\ concurrent.at[r] = "running"
    /\ concurrent' =
         [concurrent EXCEPT
            !.at[r] = "returned",
            !.summary[r] = get_execution_summary(concurrent.contexts[ContextOf(r)])]
    /\ UNCHANGED <<alone, codec>>

\* ------------------------------------------------------------------------
\* ToolResult.to_json / ToolResult.from_json
\* ------------------------------------------------------------------------
NoCodec == [none |-> TRUE]

\* ToolType member values
ToolTypeValue ==
    [ t \in ToolType |->
        CASE t = "CREATOR"   -> 0
          [] t = "ANALYZER"  -> 1
          [] t = "MODIFIER"  -> 2
          [] t = "RETRIEVER" -> 3
          [] t = "VALIDATOR" -> 4
          [] t = "EXECUTOR"  -> 5
          [] t = "REPORTER"  -> 6 ]

\* ToolType(n)
ToolTypeOf(n) == CHOOSE t \in ToolType : ToolTypeValue[t] = n

\* an Optional model field (UserContextInfo, ContentSummary) that is None
NoModel == [none |-> TRUE]

\* a SuggestedToolReference with its reason; parameters and outputLabel
\* are left at None
SuggestedToolReferenceWith(type, hint, reason) ==
    [toolType |-> type, toolNameHint |-> hint, reason |-> reason]

\* a ToolResult with its identifiers; the fields that are never None and
\* are not named here (timestamp, dataType, dataSize, description,
\* accessibility, confidence) are written and read back like toolResultId
\* and stepIndex
ToolResultWith(conv, msg, user, parent, rpp, suggestions, content, payload) ==
    [ toolResultId          |-> "id-1",
      toolName              |-> "list_files",
      conversationId        |-> conv,
      conversationMessageId |-> msg,
      userContext           |-> user,
      metadata              |-> [ intent                 |-> "list_files",
                                  requiresPostProcessing |-> rpp,
                                  suggestedTools         |-> suggestions,
                                  contentSummary         |-> content ],
      payload               |-> payload,
      stepIndex             |-> 0,
      parentToolResultId    |-> parent ]

\* a JSON object is a function on the keys it has
\* exclude_none=True on a SuggestedToolReference
RefToJson(t) ==
    [ k \in {"toolType"}
            \cup (IF t.toolNameHint # NoHint THEN {"toolNameHint"} ELSE {})
            \cup (IF t.reason # NoHint THEN {"reason"} ELSE {}) |->
        IF k = "toolType" THEN ToolTypeValue[t.toolType] ELSE t[k] ]

\* exclude_none=True on a ToolMetadata
MetadataToJson(m) ==
    [ k \in {"intent", "requiresPostProcessing", "suggestedTools"}
            \cup (IF m.contentSummary # NoModel THEN {"contentSummary"} ELSE {}) |->
        IF k = "suggestedTools"
        THEN [i \in 1..Len(m.suggestedTools) |-> RefToJson(m.suggestedTools[i])]
        ELSE m[k] ]

\* ToolResult.to_json: model_dump_json(exclude_none=True) leaves out every
\* field whose value is None
to_json(r) ==
    [ k \in {"toolResultId", "toolName", "metadata", "stepIndex"}
            \cup { f \in {"conversationId", "conversationMessageId",
                          "parentToolResultId"} : r[f] # NoHint }
            \cup (IF r.userContext # NoModel THEN {"userContext"} ELSE {})
            \cup (IF r.payload # PayloadNone THEN {"payload"} ELSE {}) |->
        IF k = "metadata" THEN MetadataToJson(r.metadata) ELSE r[k] ]

\* model_validate_json raises
ValidationError == [raised |-> "ValidationError"]

\* the value of key k, or the field's default when the key is absent
Field(j, k, default) == IF k \in DOMAIN j THEN j[k] ELSE default

RefFromJson(j) ==
    [ toolType     |-> ToolTypeOf(j.toolType),
      toolNameHint |-> Field(j, "toolNameHint", NoHint),
      reason       |-> Field(j, "reason", NoHint) ]

MetadataFromJson(j) ==
    [ intent                 |-> j.intent,
      requiresPostProcessing |-> Field(j, "requiresPostProcessing", FALSE),
      suggestedTools         |->
          IF "suggestedTools" \in DOMAIN j
          THEN [i \in 1..Len(j.suggestedTools) |-> RefFromJson(j.suggestedTools[i])]
          ELSE <<>>,
      contentSummary         |-> Field(j, "contentSummary", NoModel) ]

\* ToolResult.from_json: model_validate_json; toolName, metadata and
\* payload are declared with Field(...) and must be present
from_json(j) ==
    IF ~({"toolName", "metadata", "payload"} \subseteq DOMAIN j)
    THEN ValidationError
    ELSE [ toolResultId          |-> Field(j, "toolResultId", "uuid4()"),
           toolName              |-> j.toolName,
           conversationId        |-> Field(j, "conversationId", NoHint),
           conversationMessageId |-> Field(j, "conversationMessageId", NoHint),
           userContext           |-> Field(j, "userContext", NoModel),
           metadata              |-> MetadataFromJson(j.metadata),
           payload               |-> j.payload,
           stepIndex             |-> Field(j, "stepIndex", 0),
           parentToolResultId    |-> Field(j, "parentToolResultId", NoHint) ]

\* the ToolResults serialized
CodecIds == {NoHint, "id-0"}

CodecUserContexts == {NoModel, [userId |-> "u1", sessionId |-> "s1"]}

CodecContentSummaries == {NoModel, [fields |-> <<>>, recordCount |-> 0]}

CodecSuggestions ==
    { <<>>,
      <<SuggestedToolReferenceWith("MODIFIER", NoHint, NoHint)>>,
      <<SuggestedToolReferenceWith("RETRIEVER", "list_files", "see the files")>> }

CodecPayloads ==
    { PayloadNone, PayloadDict(EmptyDict),
      PayloadDict([file_name |-> "a.txt"]), PayloadList }

CodecResults ==
    { ToolResultWith(c, m, u, p, rpp, s, cs, payload) :
        c \in CodecIds, m \in CodecIds, u \in CodecUserContexts,
        p \in CodecIds, rpp \in BOOLEAN, s \in CodecSuggestions,
        cs \in CodecContentSummaries, payload \in CodecPayloads }

NoJson == [none |-> TRUE]

\* r.to_json()
ToJson ==
    /\ codec # NoCodec
    /\ codec.at = "built"
    /\ codec' = [codec EXCEPT !.at = "serialized", !.json = to_json(codec.result)]
    /\ UNCHANGED <<alone, concurrent>>

\* ToolResult.from_json(json_str)
FromJson ==
    /\ codec # NoCodec
    /\ codec.at = "serialized"
    /\ codec' = [codec EXCEPT !.at = "parsed", !.parsed = from_json(codec.json)]
    /\ UNCHANGED <<alone, concurrent>>

\* ------------------------------------------------------------------------
\* Specification
\* ------------------------------------------------------------------------
vars == <<context, caller, pc, chain, batch, server, workflow, invocations,
          requests, returns, summary, request, concurrent, codec>>

FreshContext ==
    /\ context = NewContext
    /\ pc = "idle"
    /\ chain = NoChain
    /\ batch = NoBatch
    /\ server = [t \in ChainTools |-> Unset]
    /\ workflow = NoReport
    /\ invocations = <<>>
    /\ requests = <<>>
    /\ returns = <<>>
    /\ summary = NoSummary
    /\ request = NoRequest
    /\ concurrent = NoConcurrent
    /\ codec = NoCodec

\* the results handed to execute_chain under a strategy, with at most n
\* suggestions; only the CONDITIONAL handler reads the initial result's
\* requiresPostProcessing
InitialResults(strategy, n) ==
    { ToolResult("clone_repository", rpp, suggestions, PayloadDict(EmptyDict)) :
        rpp \in IF strategy = "CONDITIONAL" THEN BOOLEAN ELSE {TRUE},
        suggestions \in SeqsUpTo(SuggestionPool(strategy), n) }

\* a caller issuing execute_tool calls on one context and reading its summary
ToolInit == FreshContext /\ caller = "execute_tool"

ToolNext ==
    \/ \E tool_name \in HarnessTools : ExecuteTool(tool_name)
    \/ GetExecutionSummary

ToolSpec == ToolInit /\ [][ToolNext]_vars

\* one execute_chain call on a fresh context
ChainInit == FreshContext /\ caller = "execute_chain"

\* the steps of the executor once it is called
ChainRun ==
    \/ ChainWhile
    \/ SequentialStep
    \/ \E k \in 1..MaxSuggestions : ParallelComplete(k)
    \/ ParallelGather
    \/ ConditionalStep
    \/ ChainAfter

ChainNext ==
    \/ /\ pc = "idle"
       /\ \E strategy \in ExecutionStrategy, f \in FilterFuncs :
             \E initial_result \in InitialResults(strategy, MaxSuggestions) :
                ExecuteChain(initial_result, strategy, f)
    \/ ChainRun

ChainSpec == ChainInit /\ [][ChainNext]_vars

\* the same call with shorter suggestion lists in the initial result
ChainFairNext ==
    \/ /\ pc = "idle"
       /\ \E strategy \in ExecutionStrategy, f \in FilterFuncs :
             \E initial_result \in InitialResults(strategy, MaxSuggestionsFair) :
                ExecuteChain(initial_result, strategy, f)
    \/ ChainRun

\* the call is made, every awaited tool call returns, and the executor
\* keeps running
ChainFairSpec == ChainInit /\ [][ChainFairNext]_vars /\ WF_vars(ChainFairNext)

\* one execute_workflow call on a fresh context
WorkflowInit == FreshContext /\ caller = "execute_workflow"

WorkflowNext ==
    \/ \E workflow_name \in WorkflowNames, initial_params \in InitialParams :
          ExecuteWorkflow(workflow_name, initial_params)
    \/ WorkflowStep

WorkflowSpec == WorkflowInit /\ [][WorkflowNext]_vars

\* one execute_request call: the orchestrator creates the context; the
\* chain it starts runs under SEQUENTIAL, so of the handlers only
\* _execute_sequential takes steps
RequestInit == FreshContext /\ caller = "execute_request"

RequestNext ==
    \/ /\ pc = "idle"
       /\ \E user_request \in UserRequests : ExecuteRequest(user_request)
    \/ /\ pc = "chain"
       /\ ExecuteChain(request.initial_result, "SEQUENTIAL", "None")
    \/ ChainWhile
    \/ SequentialStep
    \/ ChainAfter
    \/ RequestReturn

RequestSpec == RequestInit /\ [][RequestNext]_vars

\* several top-level calls on one ToolOrchestrator
ConcurrentInit ==
    /\ context = NewContext
    /\ caller = "orchestrator"
    /\ pc = "idle"
    /\ chain = NoChain
    /\ batch = NoBatch
    /\ server = [t \in ChainTools |-> Unset]
    /\ workflow = NoReport
    /\ invocations = <<>>
    /\ requests = <<>>
    /\ returns = <<>>
    /\ summary = NoSummary
    /\ request = NoRequest
    /\ concurrent = Quiet
    /\ codec = NoCodec

ConcurrentNext ==
    \E r \in Callers :
        \/ \E op \in TopLevel : OrchestratorEnter(r, op)
        \/ \E tool_name \in ConcurrentTools : OrchestratorCall(r, tool_name)
        \/ \E response \in ConcurrentResponses(concurrent.awaited[r]) :
               OrchestratorResume(r, response)
        \/ OrchestratorReturn(r)

ConcurrentSpec == ConcurrentInit /\ [][ConcurrentNext]_vars

\* a ToolResult is serialized and read back
CodecInit ==
    /\ context = NewContext
    /\ caller = "codec"
    /\ pc = "idle"
    /\ chain = NoChain
    /\ batch = NoBatch
    /\ server = [t \in ChainTools |-> Unset]
    /\ workflow = NoReport
    /\ invocations = <<>>
    /\ requests = <<>>
    /\ returns = <<>>
    /\ summary = NoSummary
    /\ request = NoRequest
    /\ concurrent = NoConcurrent
    /\ \E r \in CodecResults :
          codec = [result |-> r, at |-> "built", json |-> NoJson, parsed |-> NoJson]

CodecNext == ToJson \/ FromJson

CodecSpec == CodecInit /\ [][CodecNext]_vars

\* ------------------------------------------------------------------------
\* Properties of the Chain Executor
\* ------------------------------------------------------------------------
\* the calls entered since the running handler was dispatched
BatchInvocations == SubSeq(invocations, batch.first + 1, Len(invocations))

\* a result that does not ask for post-processing
Terminal(r) == IsResult(r) /\ ~r.metadata.requiresPostProcessing

Succeeded(log) == SelectSeq(log, LAMBDA r : IsResult(r.result))

ReadOnly(t) == t.toolType \in {"RETRIEVER", "ANALYZER"}

HintsOf(suggestions) ==
    [k \in 1..Len(suggestions) |-> suggestions[k].toolNameHint]

\* C1: in one execute_chain call, under any strategy and any suggestion
\* graph, chain_length never exceeds max_chain_length and a strategy
\* handler is dispatched at most max_chain_length times.
C1_ChainLengthBounded ==
    pc # "idle" =>
        /\ chain.chain_length <= max_chain_length
        /\ chain.dispatched <= max_chain_length

\* a self-suggesting tool drove the chain to the bound, and the call
\* returned although the current result still suggests a tool
C1_Witness ==
    /\ pc = "returned"
    /\ chain.chain_length = max_chain_length
    /\ chain.dispatched = max_chain_length
    /\ chain.current_result.metadata.suggestedTools # <<>>

\* C2: provided every tool call returns, execute_chain terminates, also on
\* a cycle of suggestions, and returns the accumulated list: the initial
\* result followed by one result per successful call.
C2_ChainTerminates ==
    <>( /\ pc = "returned"
        /\ Len(chain.results) = 1 + Len(Succeeded(returns)) )

\* the call returned after following a cycle up to the bound
C2_Witness ==
    /\ pc = "returned"
    /\ Len(chain.results) = max_chain_length + 1
    /\ \A k \in 2..Len(chain.results) :
          chain.results[k].toolName = chain.results[2].toolName

\* C3: under SEQUENTIAL, within one batch, once a call succeeds with a
\* result whose requiresPostProcessing is false, the batch is over: that
\* call is the last one of the batch.
C3_SequentialStopsAtTerminal ==
    (pc \in {"sequential", "after"} /\ chain.strategy = "SEQUENTIAL") =>
        \A j \in (batch.first + 1)..Len(returns) :
            Terminal(returns[j].result) =>
                /\ j = Len(returns)
                /\ Len(invocations) = Len(returns)
                /\ pc = "after"

\* suggestions [A, B], both with a hint: A succeeded with
\* requiresPostProcessing = false, and B was not invoked
C3_Witness ==
    /\ pc = "after" /\ chain.strategy = "SEQUENTIAL"
    /\ Len(batch.suggested_tools) = 2
    /\ batch.suggested_tools[1].toolNameHint = "list_files"
    /\ batch.suggested_tools[2].toolNameHint = UnregisteredTool
    /\ BatchInvocations = <<"list_files">>
    /\ Terminal(returns[Len(returns)].result)

\* C4: under PARALLEL, the calls of a batch are exactly the suggestions
\* of type RETRIEVER or ANALYZER that carry a hint, in suggestion order;
\* no suggestion of another type is invoked.
C4_ParallelInvokesReadOnly ==
    (pc \in {"parallel", "after"} /\ chain.strategy = "PARALLEL") =>
        BatchInvocations =
            HintsOf(SelectSeq(batch.suggested_tools,
                      LAMBDA t : ReadOnly(t) /\ t.toolNameHint # NoHint))

\* suggestions [Retriever X, Modifier Y, Analyzer Z]: X and Z invoked
C4_Witness ==
    /\ pc = "after" /\ chain.strategy = "PARALLEL"
    /\ batch.suggested_tools =
          << SuggestedToolReference("RETRIEVER", "list_files"),
             SuggestedToolReference("MODIFIER",  "list_files"),
             SuggestedToolReference("ANALYZER",  "commit_changes") >>
    /\ BatchInvocations = <<"list_files", "commit_changes">>

\* the suggestion a for loop is about to process has no hint
AtHintless ==
    /\ pc \in {"sequential", "conditional"}
    /\ batch.suggested_tools[batch.i].toolNameHint = NoHint

\* C5: under every strategy a suggestion without a hint is never passed
\* to execute_tool; skipping it adds no result and no error, counts as no
\* call, and the handler goes on with the next suggestion of the batch.
C5_HintlessSkipped ==
    /\ [](\A j \in 1..Len(invocations) : invocations[j] # NoHint)
    /\ [](pc = "parallel" =>
            Len(batch.tasks) <= Len(SelectSeq(batch.suggested_tools,
                                     LAMBDA t : t.toolNameHint # NoHint)))
    /\ [][ AtHintless =>
             /\ context' = context
             /\ invocations' = invocations
             /\ returns' = returns
             /\ batch'.results = batch.results
             /\ batch'.i = batch.i + 1
             /\ (batch.i < Len(batch.suggested_tools) => pc' = pc) ]_vars

\* CONDITIONAL, first batch: the first suggestion has no hint, the second
\* one was invoked, and the context holds the initial result and one entry
C5_Witness ==
    /\ pc = "after" /\ chain.strategy = "CONDITIONAL"
    /\ batch.first = 0
    /\ Len(batch.suggested_tools) = 2
    /\ batch.suggested_tools[1].toolNameHint = NoHint
    /\ BatchInvocations = <<"list_files">>
    /\ Len(context.results) + Len(context.errors) = 2

\* ------------------------------------------------------------------------
\* Properties of the Tool Invoker and of the Execution Context
\* ------------------------------------------------------------------------
Last(q) == q[Len(q)]

\* the call that returns in this step appended e to the error list
AppendedError(tool_name) ==
    /\ Len(context'.errors) = Len(context.errors) + 1
    /\ SubSeq(context'.errors, 1, Len(context.errors)) = context.errors
    /\ Last(context'.errors).tool = tool_name

\* the transport's answer makes the call fail
FailingAnswer(r) ==
    \/ r.tool \notin INTENT_CLASSIFICATIONS
    \/ r.response.kind = "raise"
    \/ ~r.response.valid
    \/ r.response.status_code = 404

\* C8: every execute_tool call changes the context by exactly one append.
\* A call that returns a result appended that result to context.results and
\* left context.errors alone; a call that returns None (unknown tool,
\* non-success status, transport exception, unparsable body) appended one
\* entry for its tool to context.errors and left context.results alone.
C8_OneAppendPerCall ==
    [][ returns' # returns =>
          LET r == Last(returns') IN
          /\ returns' = Append(returns, r)
          /\ FailingAnswer(r) => ~IsResult(r.result)
          /\ IF IsResult(r.result)
             THEN /\ context'.results = Append(context.results, r.result)
                  /\ context'.errors = context.errors
             ELSE /\ context'.results = context.results
                  /\ AppendedError(r.tool) ]_vars

\* four calls: two results and two errors, of which one for a status 404
C8_Witness ==
    /\ Len(returns) = 4
    /\ Len(context.results) = 2
    /\ Len(context.errors) = 2
    /\ \E k \in 1..4 : /\ returns[k].tool \in INTENT_CLASSIFICATIONS
                        /\ returns[k].response.kind = "response"
                        /\ returns[k].response.status_code = 404

\* the tool names of the calls that returned a result, in call order
SucceededTools(log) ==
    [k \in 1..Len(Succeeded(log)) |-> Succeeded(log)[k].tool]

\* C9: get_execution_summary is a pure read. After s successful and f
\* failed execute_tool calls on a fresh context it reports
\* total_tools_executed = s, errors = f, successful = (f = 0) and
\* tool_chain = the tool names of the successful calls in call order, and
\* it changes neither results nor errors.
C9_SummaryReflectsCalls ==
    [][ summary' # summary =>
          LET s == Len(Succeeded(returns))
              f == Len(returns) - s
          IN
          /\ context' = context
          /\ summary'.total_tools_executed = s
          /\ summary'.errors = f
          /\ summary'.successful = (f = 0)
          /\ summary'.tool_chain = SucceededTools(returns) ]_vars

\* C10: execute_tool with a name that has no entry in the registry asks
\* the transport nothing, records one error entry for that name, adds no
\* result, and returns None to its caller, which goes on.
C10_UnknownTool ==
    [][ ( /\ invocations' # invocations
          /\ Last(invocations') \notin INTENT_CLASSIFICATIONS ) =>
          /\ invocations' = Append(invocations, Last(invocations'))
          /\ requests' = requests
          /\ context'.results = context.results
          /\ AppendedError(Last(invocations'))
          /\ returns' = Append(returns, [ tool     |-> Last(invocations'),
                                         response |-> NoResponse,
                                         result   |-> None ])
          /\ pc' = pc ]_vars

\* the unregistered tool was called after a call that asked the transport
C10_Witness ==
    /\ Len(invocations) = 2
    /\ Len(requests) = 1
    /\ Last(invocations) = UnregisteredTool
    /\ Last(returns).result = None
    /\ Last(context.errors).tool = UnregisteredTool

\* ------------------------------------------------------------------------
\* Properties of the Workflow Engine
\* ------------------------------------------------------------------------
\* the step whose call returns in this step of the workflow
RunningStep == workflows[workflow.workflow_name][workflow.i]

\* the call of the running step returns None in this step
StepFails == pc = "steps" /\ returns' # returns /\ ~IsResult(Last(returns').result)

\* C6: when a required step fails, execute_workflow stops at once: the
\* report has status "failed", failed_step names the step,
\* completed_steps lists the tool names of the steps that succeeded before
\* it, errors is the error log of the context, and no later step is run.
C6_RequiredFailureStops ==
    [][ (StepFails /\ RunningStep.required) =>
          /\ pc' = "returned"
          /\ workflow'.report.status = "failed"
          /\ workflow'.report.failed_step = RunningStep.tool
          /\ workflow'.report.completed_steps = SucceededTools(returns)
          /\ workflow'.report.errors = context'.errors ]_vars

\* every required step of the workflow was run and returned a result
RequiredSucceeded ==
    LET steps == workflows[workflow.workflow_name] IN
    \A j \in 1..Len(steps) :
        steps[j].required => (j <= Len(returns) /\ IsResult(returns[j].result))

\* the steps whose call returned None
FailedSteps == SelectSeq(returns, LAMBDA r : ~IsResult(r.result))

\* C7: when an optional step fails the workflow goes on with the next
\* step; if every required step succeeds the final status is "completed"
\* and the error log of the context has exactly one entry for each failed
\* optional step.
C7_OptionalFailureContinues ==
    /\ [][ ( /\ StepFails /\ ~RunningStep.required
             /\ workflow.i < Len(workflows[workflow.workflow_name]) ) =>
             /\ pc' = "steps"
             /\ workflow'.i = workflow.i + 1 ]_vars
    /\ []( ( /\ pc \in {"returned", "raised"}
             /\ workflow.workflow_name \in DOMAIN workflows
             /\ RequiredSucceeded
             /\ FailedSteps # << >> ) =>
             /\ pc = "returned"
             /\ workflow.report.status = "completed"
             /\ Len(context.errors) = Len(FailedSteps)
             /\ \A k \in 1..Len(FailedSteps) :
                   context.errors[k].tool = FailedSteps[k].tool )

\* ------------------------------------------------------------------------
\* Properties of the error log
\* ------------------------------------------------------------------------
\* C11: every entry execute_tool records in context.errors, whatever made
\* the call fail (non-success status, transport failure, unknown tool), has
\* the same three fields: the tool name, the error message and a third one
\* for the kind of error.
C11_ErrorEntryFields ==
    /\ \A k \in 1..Len(context.errors) :
          /\ {"tool", "error"} \subseteq DOMAIN context.errors[k]
          /\ Cardinality(DOMAIN context.errors[k]) = 3
    /\ \A j, k \in 1..Len(context.errors) :
          DOMAIN context.errors[j] = DOMAIN context.errors[k]

\* C12: execute_workflow with a workflow name that is not registered ends
\* with a structured failure report handed to the caller, not with an
\* exception; no tool is invoked and the context is left as it was.
C12_UnknownWorkflowReported ==
    [][ ( /\ pc = "idle" /\ pc' # "idle"
          /\ workflow'.workflow_name \notin DOMAIN workflows ) =>
          /\ pc' = "returned"
          /\ workflow'.report.status = "failed"
          /\ context' = context
          /\ invocations' = invocations ]_vars

\* ------------------------------------------------------------------------
\* Properties of the Orchestrator
\* ------------------------------------------------------------------------
\* execute_request has returned an envelope
RequestDone == pc = "done" /\ caller = "execute_request"

\* C13: in the "completed" envelope of execute_request, total_tools, the
\* summary's total_tools_executed and its tool_chain count every tool that
\* ran successfully exactly once (the initial tool and each successful
\* follow-up), and chain_executed is true exactly when a follow-up tool
\* ran after the initial one.
C13_ToolsCountedOnce ==
    (RequestDone /\ request.envelope.status = "completed") =>
        LET ok == Succeeded(returns) IN
        /\ request.envelope.total_tools = Len(ok)
        /\ request.envelope.execution_summary.total_tools_executed = Len(ok)
        /\ request.envelope.execution_summary.tool_chain =
              [k \in 1..Len(ok) |-> ok[k].result.toolName]
        /\ request.envelope.chain_executed = (Len(ok) > 1)

\* the classifier finds no intent for the request
NoMatch == classify_intent(request.user_request) = NoIntent

\* the initial tool was called and returned None
InitialFailed == returns # <<>> /\ ~IsResult(returns[1].result)

\* C14: execute_request always ends with an envelope whose status is
\* "completed" or "failed".  It is "failed" exactly when the classifier
\* finds no match (no tool is invoked, suggestions are all registered tool
\* names) or the initial call fails (the envelope carries the summary, with
\* errors = 1); otherwise it is "completed", also when follow-ups failed.
C14_EnvelopeStatus ==
    RequestDone =>
        /\ request.envelope.status \in {"completed", "failed"}
        /\ request.envelope.status = "failed" <=> (NoMatch \/ InitialFailed)
        /\ NoMatch =>
              /\ invocations = <<>>
              /\ request.envelope.suggestions = INTENT_CLASSIFICATIONS
        /\ (~NoMatch /\ InitialFailed) =>
              /\ Len(invocations) = 1
              /\ request.envelope.context.errors = 1
              /\ request.envelope.context = get_execution_summary(context)

\* a "completed" envelope of a request one of whose follow-up calls failed
C14_Witness ==
    /\ RequestDone
    /\ request.envelope.status = "completed"
    /\ \E k \in 2..Len(returns) : ~IsResult(returns[k].result)
    /\ request.envelope.execution_summary.errors >= 1

\* C15: execute_request hands the initial result to execute_chain, under
\* SEQUENTIAL and without a filter, if and only if its
\* requiresPostProcessing is true; when it is false the request invokes
\* exactly one tool, whatever the initial result suggests.
C15_ChainIffPostProcessing ==
    /\ (RequestDone /\ request.envelope.status = "completed") =>
          /\ (chain # NoChain) <=>
                request.initial_result.metadata.requiresPostProcessing
          /\ ~request.initial_result.metadata.requiresPostProcessing =>
                Len(invocations) = 1
    /\ (caller = "execute_request" /\ chain # NoChain) =>
          /\ chain.strategy = "SEQUENTIAL"
          /\ chain.filter_func = "None"
          /\ chain.results[1] = request.initial_result

\* the initial result does not ask for post-processing and suggests a
\* registered tool: the request is over after one call
C15_Witness ==
    /\ RequestDone
    /\ request.envelope.status = "completed"
    /\ ~request.initial_result.metadata.requiresPostProcessing
    /\ request.initial_result.metadata.suggestedTools # <<>>
    /\ request.initial_result.metadata.suggestedTools[1].toolNameHint = "list_files"
    /\ invocations = <<"create_repository">>
    /\ chain = NoChain

\* ------------------------------------------------------------------------
\* Properties of the strategies
\* ------------------------------------------------------------------------
\* C16: under CONDITIONAL a MODIFIER suggestion is invoked only if, when it
\* is evaluated, the most recent result of the context has
\* requiresPostProcessing = true (also when that result was produced
\* earlier in the same batch); a VALIDATOR suggestion with a hint is always
\* invoked.
C16_ModifierNeedsPostProcessing ==
    [][ pc = "conditional" =>
          LET suggestion == batch.suggested_tools[batch.i]
              last_result == Last(context.results)
          IN
          /\ (suggestion.toolType = "MODIFIER" /\ invocations' # invocations)
                => last_result.metadata.requiresPostProcessing
          /\ (suggestion.toolType = "VALIDATOR"
                /\ suggestion.toolNameHint # NoHint)
                => invocations' = Append(invocations, suggestion.toolNameHint)
        ]_vars

\* the initial result asks for post-processing; the VALIDATOR of the batch
\* ran and its result does not, so the MODIFIER after it was skipped
C16_Witness ==
    /\ pc = "after" /\ chain.strategy = "CONDITIONAL"
    /\ batch.first = 0
    /\ context.results[1].metadata.requiresPostProcessing
    /\ batch.suggested_tools =
          << SuggestedToolReference("VALIDATOR", "list_files"),
             SuggestedToolReference("MODIFIER",  "list_files") >>
    /\ invocations = <<"list_files">>
    /\ Terminal(Last(returns).result)

\* the calls of the running batch that have returned
BatchReturns == SubSeq(returns, batch.first + 1, Len(returns))

\* C17: under PARALLEL with n eligible suggestions, whatever the order in
\* which the calls complete, the executor leaves the batch only when all n
\* calls have returned; by then the context has grown by exactly n entries
\* (a result per success, an error per failure), and the batch handed back
\* holds exactly the results of the successful calls.
C17_ParallelAwaitsAll ==
    /\ (caller = "execute_chain" /\ pc \notin {"idle", "parallel"}) =>
          Len(returns) = Len(invocations)
    /\ (pc = "after" /\ chain.strategy = "PARALLEL") =>
          LET n == Len(SelectSeq(batch.suggested_tools,
                         LAMBDA t : ReadOnly(t) /\ t.toolNameHint # NoHint))
              ok == Succeeded(BatchReturns)
          IN
          /\ Len(BatchReturns) = n
          /\ Len(context.results) + Len(context.errors) = 1 + batch.first + n
          /\ Len(context.results) = 1 + Len(Succeeded(returns))
          /\ Len(context.errors) = Len(returns) - Len(Succeeded(returns))
          /\ Len(batch.results) = Len(ok)
          /\ \A k \in 1..Len(ok) :
                \E j \in 1..Len(batch.results) : batch.results[j] = ok[k].result
          /\ \A j \in 1..Len(batch.results) :
                \E k \in 1..Len(ok) : batch.results[j] = ok[k].result

\* two eligible calls completed in the reverse of their task order, the
\* first one to complete failed and the other one succeeded
C17_Witness ==
    /\ pc = "after" /\ chain.strategy = "PARALLEL"
    /\ BatchInvocations = <<"list_files", "commit_changes">>
    /\ Len(BatchReturns) = 2
    /\ BatchReturns[1].tool = "commit_changes"
    /\ ~IsResult(BatchReturns[1].result)
    /\ BatchReturns[2].tool = "list_files"
    /\ IsResult(BatchReturns[2].result)
    /\ Len(batch.results) = 1

\* the suggestions of the current result the filter predicate accepts
Accepted ==
    SelectSeq(chain.current_result.metadata.suggestedTools,
              LAMBDA t : filter_func(chain.filter_func, t))

\* C18: with a filter predicate, a suggestion the predicate rejects is
\* never invoked, in any iteration: the handler is given, and invokes, only
\* accepted suggestions of the current result.  If the predicate rejects
\* every suggestion of the current result the chain returns at once,
\* without invoking a tool.
C18_FilterPrunes ==
    /\ []( ( /\ caller = "execute_chain"
             /\ pc \in {"sequential", "parallel", "conditional", "after"}
             /\ chain.filter_func # "None" ) =>
             /\ batch.suggested_tools = Accepted
             /\ \A j \in 1..Len(BatchInvocations) :
                   \E k \in 1..Len(Accepted) :
                      BatchInvocations[j] = Accepted[k].toolNameHint )
    /\ [][ ( /\ pc = "while"
             /\ chain.filter_func # "None"
             /\ Accepted = <<>> ) =>
             /\ pc' = "returned"
             /\ invocations' = invocations
             /\ chain' = chain ]_vars

\* the predicate rejects the suggestions that name list_files: of
\* [list_files, add_gitignore] only add_gitignore was invoked
C18_Witness ==
    /\ pc = "after" /\ chain.strategy = "SEQUENTIAL"
    /\ chain.filter_func = "not_list_files"
    /\ HintsOf(chain.current_result.metadata.suggestedTools) =
          <<"list_files", UnregisteredTool>>
    /\ invocations = <<UnregisteredTool>>

\* ------------------------------------------------------------------------
\* Properties of the parameters and of the report of a workflow
\* ------------------------------------------------------------------------
RECURSIVE Threaded(_)
\* initial_params updated, in step order, with the mapping payloads of the
\* first k steps that succeeded
Threaded(k) ==
    IF k = 0 THEN workflow.initial_params
    ELSE LET r == returns[k].result IN
         IF IsResult(r) /\ r.payload.kind = "dict"
         THEN Merge(Threaded(k - 1), r.payload.value)
         ELSE Threaded(k - 1)

\* C19: the parameters passed to execute_tool for step k are initial_params
\* updated in step order with the mapping payloads of the earlier
\* successful steps (the later payload wins), then overlaid with the fixed
\* overrides of step k (the overrides win); failed steps contribute
\* nothing, and the overrides of a step are not carried to later steps.
C19_StepParams ==
    (caller = "execute_workflow" /\ pc \in {"steps", "returned"}) =>
        \A k \in 1..Len(workflow.passed) :
            workflow.passed[k] =
                Merge(Threaded(k - 1),
                      workflows[workflow.workflow_name][k].params)

\* the call of a required step returned None
RequiredFailed ==
    \E j \in 1..Len(returns) :
        /\ ~IsResult(returns[j].result)
        /\ workflows[workflow.workflow_name][j].required

\* execute_workflow has returned a report with status "completed"
Completed == pc = "returned" /\ workflow.report.status = "completed"

\* C20: execute_workflow reports "completed" if and only if no required
\* step failed; in that report every step of the workflow was attempted
\* once, in the defined order, results is the list of the successful steps'
\* results in order, and steps_executed is the length of that list.
C20_CompletedIffRequiredSucceed ==
    ( /\ caller = "execute_workflow"
      /\ pc \in {"returned", "raised"}
      /\ workflow.workflow_name \in DOMAIN workflows ) =>
        /\ Completed <=> ~RequiredFailed
        /\ Completed =>
              LET steps == workflows[workflow.workflow_name]
                  ok == Succeeded(returns)
              IN
              /\ invocations = [k \in 1..Len(steps) |-> steps[k].tool]
              /\ workflow.report.results = [k \in 1..Len(ok) |-> ok[k].result]
              /\ workflow.report.steps_executed = Len(ok)

\* ------------------------------------------------------------------------
\* C21
\* ------------------------------------------------------------------------
\* the results and the tools of the errors a list of finished calls leaves
\* in a context that held nothing else
ResultsOf(log) ==
    [i \in 1..Len(Succeeded(log)) |-> Succeeded(log)[i].result]

Failed(log) == SelectSeq(log, LAMBDA c : ~IsResult(c.result))

ErrorToolsOf(log) == [i \in 1..Len(Failed(log)) |-> Failed(log)[i].tool]

Entered(r) == concurrent.at[r] # "idle"

C22_RoundTrip ==
    (codec # NoCodec /\ codec.at = "parsed") =>
        /\ "payload" \in DOMAIN codec.json
        /\ codec.parsed # ValidationError
        /\ codec.parsed = codec.result

\* ------------------------------------------------------------------------
\* C23
\* ------------------------------------------------------------------------
\* the eligible suggestions of the batch, in suggestion order
Eligible ==
    SelectSeq(batch.suggested_tools,
              LAMBDA t : ReadOnly(t) /\ t.toolNameHint # NoHint)

\* the calls of the batch that returned a result for suggestion t
SuccessesFor(t) ==
    { j \in DOMAIN BatchReturns :
        BatchReturns[j].tool = t.toolNameHint /\ IsResult(BatchReturns[j].result) }

\* position in Eligible of the last suggestion whose call succeeded
LastSuccessful ==
    CHOOSE k \in DOMAIN Eligible :
        /\ SuccessesFor(Eligible[k]) # {}
        /\ \A l \in DOMAIN Eligible : l > k => SuccessesFor(Eligible[l]) = {}

\* C23: when the chain continues after a PARALLEL batch, current_result
\* becomes the result returned for the last eligible suggestion, in
\* suggestion order, whose call succeeded, whatever the order in which the
\* calls completed.
C23_ParallelContinuation ==
    [][ (pc = "after" /\ chain.strategy = "PARALLEL" /\ pc' = "while") =>
          /\ \E k \in DOMAIN Eligible : SuccessesFor(Eligible[k]) # {}
          /\ \A j \in SuccessesFor(Eligible[LastSuccessful]) :
                chain'.current_result = BatchReturns[j].result ]_vars

\* a chain continued after a PARALLEL batch whose two calls succeeded and
\* completed in the reverse of the suggestion order: the continuation
\* point is not the result appended to the context last
C23_Witness ==
    /\ caller = "execute_chain" /\ pc = "while"
    /\ chain.strategy = "PARALLEL"
    /\ chain.chain_length = 1
    /\ Len(returns) = 2
    /\ IsResult(returns[1].result) /\ IsResult(returns[2].result)
    /\ returns[1].tool # returns[2].tool
    /\ chain.current_result = returns[1].result
    /\ get_last_result(context) = returns[2].result
    /\ chain.current_result # get_last_result(context)

\* ------------------------------------------------------------------------
\* C24
\* ------------------------------------------------------------------------
\* the call of the running step returns, in this step, a result whose
\* payload is truthy and is not a dict
StepSucceedsWithNonMapping ==
    /\ pc = "steps"
    /\ returns' # returns
    /\ IsResult(Last(returns').result)
    /\ Last(returns').result.payload.kind \in {"list", "scalar", "pairs"}

\* C24: when a step succeeds with a non-empty payload that is not a
\* mapping, no exception leaves execute_workflow, params is left as it was
\* and the workflow goes on: to the next step, or to its "completed"
\* report after the last step.
C24_MergeOnlyMappings ==
    [][ StepSucceedsWithNonMapping =>
          /\ pc' # "raised"
          /\ workflow'.params = workflow.params
          /\ IF workflow.i = Len(workflows[workflow.workflow_name])
             THEN pc' = "returned" /\ workflow'.report.status = "completed"
             ELSE pc' = "steps" /\ workflow'.i = workflow.i + 1 ]_vars

\* ------------------------------------------------------------------------
\* C25
\* ------------------------------------------------------------------------
\* the suggestions of the batch the for loop has gone through
Tried == SubSeq(batch.suggested_tools, 1, batch.i - 1)

\* C25: under SEQUENTIAL the calls of a batch are the hints of the
\* suggestions gone through so far, in suggestion order, each call having
\* returned before the next is made; the batch is left before its last
\* suggestion only after a call that returned a result with
\* requiresPostProcessing = false, never after a failed call; a failed
\* call leaves one error entry in the context and nothing in the batch.
C25_SequentialInOrder ==
    (pc \in {"sequential", "after"} /\ chain.strategy = "SEQUENTIAL") =>
        /\ BatchInvocations =
             HintsOf(SelectSeq(Tried, LAMBDA t : Truthy(t.toolNameHint)))
        /\ Len(returns) = Len(invocations)
        /\ \A j \in DOMAIN BatchReturns : BatchReturns[j].tool = BatchInvocations[j]
        /\ (pc = "after" /\ Len(Tried) < Len(batch.suggested_tools)) =>
              (BatchReturns # <<>> /\ Terminal(Last(BatchReturns).result))
        /\ batch.results =
             [k \in 1..Len(Succeeded(BatchReturns)) |-> Succeeded(BatchReturns)[k].result]
        /\ Len(context.errors) = Len(returns) - Len(Succeeded(returns))

\* suggestions [A, B]: the call for A failed and B was invoked after it
C25_Witness ==
    /\ pc = "after" /\ chain.strategy = "SEQUENTIAL"
    /\ Len(batch.suggested_tools) = 2
    /\ BatchInvocations = <<UnregisteredTool, "list_files">>
    /\ ~IsResult(BatchReturns[1].result)
    /\ IsResult(BatchReturns[2].result)
    /\ Len(context.errors) = 1
    /\ context.errors[1].tool = UnregisteredTool
    /\ Len(batch.results) = 1

\* ------------------------------------------------------------------------
\* C26
\* ------------------------------------------------------------------------
\* C26: when a strategy handler hands back an empty batch, execute_chain
\* returns in that iteration: what it returns is the list accumulated so
\* far, whose first element is the initial result, the context keeps the
\* errors of the batch, and no tool is invoked afterwards.
C26_EmptyBatchTerminates ==
    [][ /\ (caller = "execute_chain" /\ pc = "after" /\ batch.results = <<>>) =>
             /\ pc' = "returned"
             /\ chain'.results = chain.results
             /\ chain.results[1] = context.results[1]
             /\ Len(chain.results) = 1 + Len(Succeeded(returns))
             /\ context' = context
             /\ Len(context.errors) = Len(returns) - Len(Succeeded(returns))
             /\ invocations' = invocations
        /\ (caller = "execute_chain" /\ pc = "returned") =>
             (invocations' = invocations /\ chain' = chain /\ context' = context)
      ]_vars

\* the call returned after a batch of two calls that both failed; the
\* list returned holds the initial result alone and the two failures are
\* in the context
C26_Witness ==
    /\ caller = "execute_chain" /\ pc = "returned"
    /\ chain.dispatched = 1
    /\ batch.results = <<>>
    /\ Len(BatchReturns) = 2
    /\ chain.results = <<context.results[1]>>
    /\ Len(context.errors) = 2
    /\ Last(context.errors).tool = Last(returns).tool

\* ------------------------------------------------------------------------
\* C27
\* ------------------------------------------------------------------------
\* C27: every step of the built-in workflow being run names a tool of the
\* registry, and every tool execute_workflow passes to execute_tool is
\* registered and reaches the transport.
C27_WorkflowToolsRegistered ==
    (caller = "execute_workflow" /\ pc # "idle"
       /\ workflow.workflow_name \in DOMAIN workflows) =>
        /\ \A k \in DOMAIN workflows[workflow.workflow_name] :
              get_intent_by_name(workflows[workflow.workflow_name][k].tool)
        /\ \A j \in DOMAIN invocations : get_intent_by_name(invocations[j])
        /\ requests = invocations

\* ------------------------------------------------------------------------
\* C28
\* ------------------------------------------------------------------------
RECURSIVE Concat(_)
Concat(seqs) == IF seqs = <<>> THEN <<>> ELSE Head(seqs) \o Concat(Tail(seqs))

\* the keywords of a rule read as whole words: a key written as one
\* parenthesised string is one keyword
WholeKeywords(rule) ==
    IF \A j \in DOMAIN rule.keywords : Len(rule.keywords[j]) = 1
    THEN <<Concat(rule.keywords)>>
    ELSE rule.keywords

\* the intent of the first rule, in declaration order, all of whose whole
\* keywords occur in the lower-cased query
FirstWholeKeywordMatch(user_query) ==
    LET matching == { k \in 1..Len(keyword_intent_map) :
                        \A j \in DOMAIN WholeKeywords(keyword_intent_map[k]) :
                            Contains(Lower(user_query),
                                     WholeKeywords(keyword_intent_map[k])[j]) }
        first == CHOOSE k \in matching : \A j \in matching : k <= j
    IN IF matching = {} THEN NoIntent ELSE keyword_intent_map[first].intent_name

\* C28: the intent execute_request obtains from classify_intent is that of
\* the first rule, in declaration order, all of whose whole keywords occur
\* in the lower-cased request, and None if there is no such rule; the tool
\* called first is that intent, and a request that does not contain
\* "gitignore" is not handed to generate_gitignore.
C28_FirstWholeKeywordMatch ==
    (caller = "execute_request" /\ pc # "idle") =>
        LET claimed == FirstWholeKeywordMatch(request.user_request) IN
        /\ classify_intent(request.user_request) = claimed
        /\ IF claimed = NoIntent
           THEN invocations = <<>>
           ELSE invocations # <<>> /\ invocations[1] = claimed
        /\ ~Contains(Lower(request.user_request),
                     <<"g","i","t","i","g","n","o","r","e">>) =>
              \A j \in DOMAIN invocations : invocations[j] # "generate_gitignore"

\* ------------------------------------------------------------------------
\* C29
\* ------------------------------------------------------------------------
\* C29: a call the transport answered returns a result exactly when the
\* status code is 200 and the body validates as a ToolResult; with any
\* other status, 201 and 204 included, the call returns None, nothing is
\* added to the results and one HTTP error entry for the tool is added to
\* the errors.
C29_Only200Succeeds ==
    [][ (returns' # returns /\ Last(returns').tool \in INTENT_CLASSIFICATIONS
           /\ Last(returns').response.kind = "response") =>
          LET r == Last(returns') IN
          /\ IsResult(r.result) <=> (r.response.status_code = 200 /\ r.response.valid)
          /\ IsResult(r.result) => r.result = r.response.json
          /\ r.response.status_code # 200 =>
                /\ context'.results = context.results
                /\ context'.errors =
                     Append(context.errors,
                            HttpError(r.tool, r.response.status_code)) ]_vars

\* a call answered 201 with a valid ToolResult body returned None and left
\* an HTTP 201 error entry, and a call answered 204 did the same
C29_Witness ==
    /\ caller = "execute_tool"
    /\ Len(returns) = 2
    /\ returns[1].tool = "create_repository"
    /\ returns[1].response.kind = "response"
    /\ returns[1].response.status_code = 201
    /\ returns[1].response.valid
    /\ ~IsResult(returns[1].result)
    /\ returns[2].tool = "create_repository"
    /\ returns[2].response.kind = "response"
    /\ returns[2].response.status_code = 204
    /\ ~IsResult(returns[2].result)
    /\ context.results = <<>>
    /\ context.errors = << HttpError("create_repository", 201),
                           HttpError("create_repository", 204) >>

\* ------------------------------------------------------------------------
\* C30
\* ------------------------------------------------------------------------
\* the optional steps of the workflow whose call returned None
FailedOptionalSteps ==
    { k \in DOMAIN returns :
        /\ ~workflows[workflow.workflow_name][k].required
        /\ ~IsResult(returns[k].result) }

\* C30: when execute_workflow returns a report with status "completed",
\* the summary in the report has successful = true exactly when no optional
\* step failed, and its error count is the number of optional steps that
\* failed.
C30_StatusAndSuccessFlag ==
    (caller = "execute_workflow" /\ pc = "returned"
       /\ workflow.report.status = "completed") =>
        /\ workflow.report.summary.successful <=> (FailedOptionalSteps = {})
        /\ workflow.report.summary.errors = Cardinality(FailedOptionalSteps)
        /\ workflow.report.summary.total_tools_executed
             = workflow.report.steps_executed

\* create_and_setup_repo returned "completed" although its optional step
\* generate_gitignore failed: the summary says successful = false with one
\* error
C30_Witness ==
    /\ caller = "execute_workflow" /\ pc = "returned"
    /\ workflow.workflow_name = "create_and_setup_repo"
    /\ workflow.report.status = "completed"
    /\ FailedOptionalSteps = {3}
    /\ ~workflow.report.summary.successful
    /\ workflow.report.summary.errors = 1
    /\ workflow.report.steps_executed = 5

====
